---- MODULE Spec2Model ----
(***************************************************************************)
(* Model of lain's mutation dispatch (src/lain/src/mutatable.rs): the      *)
(* Vec resize algorithm (grow_vec / shrink_vec), the two Vec mutate forms, *)
(* the slice mutate, UnsafeEnum mutate and the AsciiString / Utf8String    *)
(* mutate.  Every random draw of the Mutator is a nondeterministic choice. *)
(***************************************************************************)
EXTENDS Integers, Sequences, FiniteSets, TLC

\* ---------------------------------------------------------------- bounds
MaxLen == 4           \* longest initial Vec for the form that can grow
MaxShrinkLen == 10    \* longest initial Vec for the shrink-only form
MaxBudget == 10       \* largest max_size a caller passes
MinNonzeroSize == 4   \* T::min_nonzero_elements_size() of the element type
MaxStrLen == 3        \* longest string container
MaxAscii == 1         \* AsciiChar values are 0..MaxAscii
MaxUtf8 == 2          \* Utf8Char values are 0..MaxUtf8
NumVariants == 3      \* declared enumerators of T in UnsafeEnum<T, I>
MaxEnumCalls == 3     \* mutate calls made on one UnsafeEnum
RawBits == 8          \* width of the raw integer I of UnsafeEnum<T, I>

\* ------------------------------------------------------------- constants
FixedLow == 1         \* mutator.gen_range(1, 9)
FixedHigh == 9
NoBudget == -1        \* Option<usize>::None
Unmeasured == -3      \* size of an element serialized_size() was never asked for
Panic == -2           \* a draw that aborted the call

VARIABLES vec, pre, mode, call, genLog, mutLog, pc, fault,
          uenum, enumOrigin, enumCalls, unreachableTaken,
          str, strKind, strPre, replaced, strDone

vars == <<vec, pre, mode, call, genLog, mutLog, pc, fault,
          uenum, enumOrigin, enumCalls, unreachableTaken,
          str, strKind, strPre, replaced, strDone>>

vecVars == <<vec, pre, mode, call, genLog, mutLog, pc>>
enumVars == <<uenum, enumOrigin, enumCalls, unreachableTaken>>
strVars == <<str, strKind, strPre, replaced, strDone>>

\* ------------------------------------------------------------ enumerations
VecResizeCount == {"Quarter", "Half", "ThreeQuarters", "FixedBytes", "AllBytes"}
VecResizeDirection == {"FromBeginning", "FromEnd"}
VecResizeType == {"Grow", "Shrink"}
MutatorMode == {"Havoc", "NonHavoc"}

\* ------------------------------------------------------------ the Mutator
\* gen_range(low, high): a uniform draw in [low, high); on an empty range
\* the draw is degenerate: it aborts, or it hands back low.
gen_range(low, high) ==
    IF low < high THEN low .. (high - 1) ELSE {Panic, low}

\* rand::seq::index::sample(rng, length, amount): amount distinct positions
\* of 1..length; it aborts (empty result set here) when amount > length.
index_sample(length, amount) ==
    {S \in SUBSET (1 .. length) : Cardinality(S) = amount}

\* ------------------------------------------------------------ element type
\* serialized_size() of an element: zero, the minimum, or above the minimum
ElemSizes == {0, MinNonzeroSize, MinNonzeroSize + 1}

\* originals are numbered 1..n, the j-th generated element is -j
FreshId(j) == 0 - j

Budgets == {NoBudget} \cup (0 .. MaxBudget)

\* Option<&Constraints<u8>>: absent, or present with an optional max_size
ConstraintValues ==
    {[present |-> FALSE, max_size |-> NoBudget]}
      \cup {[present |-> TRUE, max_size |-> b] : b \in Budgets}

\* constraints.map_or(None, |c| c.max_size)
MaxSizeOf(constraints) ==
    IF constraints.present THEN constraints.max_size ELSE NoBudget

Min(a, b) == IF a < b THEN a ELSE b

RECURSIVE serialized_size(_)
serialized_size(v) ==
    IF v = <<>> THEN 0 ELSE Head(v).size + serialized_size(Tail(v))

\* ------------------------------------------------------------ resize count
\* the match on resize_count, shared by grow_vec and shrink_vec
PolicyCount(resize_count, len, draw) ==
    CASE resize_count = "Quarter" -> len \div 4
      [] resize_count = "Half" -> len \div 2
      [] resize_count = "ThreeQuarters" -> len - (len \div 4)
      [] resize_count = "FixedBytes" -> draw
      [] resize_count = "AllBytes" -> len

\* does the count computation consume a gen_range(1, 9) draw
GrowUsesDraw(len, resize_count) == len = 0 \/ resize_count = "FixedBytes"
ShrinkUsesDraw(resize_count) == resize_count = "FixedBytes"

\* ------------------------------------------------------------ grow_vec
GrowCandidate(len, resize_count, draw) ==
    IF len = 0 THEN draw ELSE PolicyCount(resize_count, len, draw)

BudgetCap(num_elements, max_size) ==
    IF max_size # NoBudget
    THEN Min(num_elements, max_size \div MinNonzeroSize)
    ELSE num_elements

\* faulty variant: the budget is charged the minimum element size, not the actual one
ConsumeMinimum(inner_max_size, element_size) == inner_max_size - MinNonzeroSize

\* max_size = Some(inner_max_size - element_size)
Consume(inner_max_size, element_size) == inner_max_size - element_size

\* faulty variant: the size check before the insertion is missing
NeverExceeds(element_size, inner_max_size) == FALSE

\* if element_size > inner_max_size { break; }
ExceedsBudget(element_size, inner_max_size) == element_size > inner_max_size

\* the per-element loop: sizes[i] is what serialized_size() reports for the
\* element T::new_fuzzed hands back in iteration i (the generator need not
\* honour the constraint it is given); without a budget the size is never
\* asked for
RECURSIVE GrowLoop(_, _, _, _)
GrowLoop(i, num_elements, sizes, st) ==
    IF i > num_elements THEN st
    ELSE LET element == [id |-> FreshId(i), size |-> sizes[i], muts |-> 0]
             entry(acc) == [constraint |-> st.max_size, size |-> sizes[i],
                            accepted |-> acc]
         IN IF st.max_size # NoBudget /\ ExceedsBudget(element.size, st.max_size)
            THEN [st EXCEPT !.log = Append(@, entry(FALSE))]
            ELSE GrowLoop(i + 1, num_elements, sizes,
                   [new_vec |-> Append(st.new_vec, element),
                    log |-> Append(st.log, entry(TRUE)),
                    max_size |-> IF st.max_size # NoBudget
                                 THEN Consume(st.max_size, element.size)
                                 ELSE NoBudget])

\* faulty variant: the staged elements land behind the original ones
SpliceBehind(new_vec, v) == v \o new_vec

\* new_vec.append(vec); *vec = new_vec
SpliceFront(new_vec, v) == new_vec \o v
\* vec.push(element) for each accepted element
PushBack(v, new_vec) == v \o new_vec

grow_vec(v, max_size, resize_count, draw, direction, sizes) ==
    LET candidate == GrowCandidate(Len(v), resize_count, draw)
        num_elements == BudgetCap(candidate, max_size)
    IN IF num_elements = 0
       THEN [vec |-> v, log |-> <<>>, candidate |-> candidate,
             num_elements |-> 0, rem |-> max_size]
       ELSE LET st == GrowLoop(1, num_elements, sizes,
                        [new_vec |-> <<>>, log |-> <<>>, max_size |-> max_size])
            IN [vec |-> IF direction = "FromBeginning"
                        THEN SpliceFront(st.new_vec, v)
                        ELSE PushBack(v, st.new_vec),
                log |-> st.log, candidate |-> candidate,
                num_elements |-> num_elements, rem |-> st.max_size]

\* ------------------------------------------------------------ shrink_vec
\* vec.drain(0..num_elements)
DrainFront(v, num_elements) == SubSeq(v, num_elements + 1, Len(v))
\* faulty variant: the run is taken from the front although FromEnd was drawn
DrainBackFromFront(v, num_elements) == SubSeq(v, num_elements + 1, Len(v))

\* vec.drain(vec.len()-num_elements..)
DrainBack(v, num_elements) == SubSeq(v, 1, Len(v) - num_elements)

\* the count after the zero fallback
ShrinkCount(len, resize_count, draw, fallback) ==
    LET num_elements == PolicyCount(resize_count, len, draw)
    IN IF num_elements = 0 THEN fallback ELSE num_elements

\* a drain range past the end (0..k with k > len, or len-k underflowing)
\* aborts the call and leaves the Vec as it was
shrink_vec(v, resize_count, draw, fallback, direction) ==
    LET num_elements == ShrinkCount(Len(v), resize_count, draw, fallback)
    IN IF Len(v) = 0 THEN [vec |-> v, k |-> 0, fault |-> FALSE]
       ELSE IF num_elements = Len(v)
       THEN [vec |-> <<>>, k |-> num_elements, fault |-> FALSE]
       ELSE IF num_elements > Len(v)
       THEN [vec |-> v, k |-> num_elements, fault |-> TRUE]
       ELSE [vec |-> IF direction = "FromBeginning"
                     THEN DrainFront(v, num_elements)
                     ELSE DrainBack(v, num_elements),
             k |-> num_elements, fault |-> FALSE]

\* ------------------------------------------------------------ slice mutate
\* for item in self.iter_mut() { T::mutate(item, mutator, constraints) }
RECURSIVE slice_mutate(_, _, _, _)
slice_mutate(v, i, constraints, log) ==
    IF i > Len(v) THEN [vec |-> v, log |-> log]
    ELSE slice_mutate([v EXCEPT ![i].muts = @ + 1], i + 1, constraints,
                      Append(log, [idx |-> i, constraints |-> constraints]))

\* faulty variant: the resize gate forgets the mode
ResizeOnChance(m, chance) == chance

\* mutator.mode() == MutatorMode::Havoc && mutator.gen_chance(1.0)
ShouldResize(m, chance) == m = "Havoc" /\ chance

\* ------------------------------------------------------------ Vec state
NoDraw == -1          \* a draw the call did not make

NoCall ==
    [form |-> "none", constraints |-> [present |-> FALSE, max_size |-> NoBudget],
     chance |-> FALSE, path |-> "none", resize_type |-> "none",
     resize_count |-> "none", draw |-> 0, fallback |-> NoDraw,
     direction |-> "none", candidate |-> 0, num_elements |-> 0, rem |-> NoBudget]

\* the Vec before the call: n elements numbered in order
InitialSize(i) ==
    CASE i % 3 = 1 -> MinNonzeroSize
      [] i % 3 = 2 -> MinNonzeroSize + 1
      [] OTHER -> 0

InitialVec(n) == [i \in 1 .. n |-> [id |-> i, size |-> InitialSize(i), muts |-> 0]]

InitRest ==
    /\ pre = <<>> /\ call = NoCall /\ genLog = <<>> /\ mutLog = <<>>
    /\ pc = "ready" /\ fault = FALSE

EnumIdle ==
    /\ uenum = [tag |-> "Valid", value |-> 1]
    /\ enumOrigin = "Valid"
    /\ enumCalls = 0 /\ unreachableTaken = FALSE

StrIdle ==
    /\ str = <<>> /\ strKind = "ascii" /\ strPre = <<>>
    /\ replaced = {} /\ strDone = FALSE

InitVec ==
    /\ \E n \in 0 .. MaxLen : vec = InitialVec(n)
    /\ mode \in MutatorMode
    /\ InitRest /\ EnumIdle /\ StrIdle

InitShrink ==
    /\ \E n \in 0 .. MaxShrinkLen : vec = InitialVec(n)
    /\ mode \in MutatorMode
    /\ InitRest /\ EnumIdle /\ StrIdle

\* ------------------------------------------------------------ Vec actions
\* the else branch of both Vec forms: self.as_mut_slice().mutate(..)
ElementPass(form, constraints) ==
    LET r == slice_mutate(vec, 1, constraints, <<>>)
    IN /\ vec' = r.vec
       /\ mutLog' = r.log
       /\ genLog' = <<>>
       /\ call' = [NoCall EXCEPT !.form = form, !.constraints = constraints,
                                 !.path = "elements"]
       /\ fault' = FALSE

\* the call to shrink_vec with its draws
ShrinkStep(form, constraints) ==
    IF Len(vec) = 0
    THEN /\ vec' = vec /\ mutLog' = <<>> /\ genLog' = <<>> /\ fault' = FALSE
         /\ call' = [NoCall EXCEPT !.form = form, !.constraints = constraints,
                            !.chance = TRUE, !.path = "resize",
                            !.resize_type = "Shrink"]
    ELSE \E resize_count \in VecResizeCount :
         \E draw \in (IF ShrinkUsesDraw(resize_count)
                      THEN gen_range(FixedLow, FixedHigh) ELSE {0}) :
         \E fallback \in (IF PolicyCount(resize_count, Len(vec), draw) = 0
                          THEN gen_range(0, Len(vec) + 1) ELSE {NoDraw}) :
         \E direction \in
              (IF ShrinkCount(Len(vec), resize_count, draw, fallback) = Len(vec)
               THEN {"none"} ELSE VecResizeDirection) :
           LET r == shrink_vec(vec, resize_count, draw, fallback, direction)
           IN /\ vec' = r.vec
              /\ fault' = r.fault
              /\ mutLog' = <<>> /\ genLog' = <<>>
              /\ call' = [NoCall EXCEPT !.form = form,
                            !.constraints = constraints,
                            !.chance = TRUE, !.path = "resize",
                            !.resize_type = "Shrink",
                            !.resize_count = resize_count, !.draw = draw,
                            !.fallback = fallback, !.direction = direction,
                            !.num_elements = r.k]

\* the call to grow_vec with its draws
GrowStep(form, constraints) ==
    \E resize_count \in VecResizeCount :
    \E draw \in (IF GrowUsesDraw(Len(vec), resize_count)
                 THEN gen_range(FixedLow, FixedHigh) ELSE {0}) :
      LET max_size == MaxSizeOf(constraints)
          num == BudgetCap(GrowCandidate(Len(vec), resize_count, draw), max_size)
      IN \E direction \in (IF num = 0 THEN {"none"} ELSE VecResizeDirection) :
         \E sizes \in (IF max_size = NoBudget
                       THEN {[i \in 1 .. num |-> Unmeasured]}
                       ELSE [1 .. num -> ElemSizes]) :
           LET r == grow_vec(vec, max_size, resize_count, draw, direction, sizes)
           IN /\ vec' = r.vec
              /\ genLog' = r.log
              /\ mutLog' = <<>>
              /\ fault' = FALSE
              /\ call' = [NoCall EXCEPT !.form = form,
                            !.constraints = constraints,
                            !.chance = TRUE, !.path = "resize",
                            !.resize_type = "Grow",
                            !.resize_count = resize_count, !.draw = draw,
                            !.direction = direction,
                            !.candidate = r.candidate,
                            !.num_elements = r.num_elements, !.rem = r.rem]

\* impl<T: Mutatable> Mutatable for Vec<T>
MutateVecGeneric ==
    /\ pc = "ready"
    /\ pc' = "done"
    /\ pre' = vec
    /\ \E constraints \in ConstraintValues, chance \in BOOLEAN :
         IF ShouldResize(mode, chance)
         THEN ShrinkStep("generic", constraints)
         ELSE ElementPass("generic", constraints)
    /\ UNCHANGED <<mode, enumVars, strVars>>

\* impl<T: Mutatable + NewFuzzed + SerializedSize> Mutatable for Vec<T>
MutateVecRich ==
    /\ pc = "ready"
    /\ pc' = "done"
    /\ pre' = vec
    /\ \E constraints \in ConstraintValues, chance \in BOOLEAN :
         IF ShouldResize(mode, chance)
         THEN \E resize_type \in VecResizeType :
                IF resize_type = "Grow"
                THEN GrowStep("rich", constraints)
                ELSE ShrinkStep("rich", constraints)
         ELSE ElementPass("rich", constraints)
    /\ UNCHANGED <<mode, enumVars, strVars>>

NextVec == MutateVecGeneric \/ MutateVecRich
SpecVec == InitVec /\ [][NextVec]_vars

NextShrink == MutateVecGeneric
SpecShrink == InitShrink /\ [][NextShrink]_vars

VecIdle ==
    /\ vec = <<>> /\ mode = "Havoc" /\ InitRest

\* ------------------------------------------------------------ UnsafeEnum
RECURSIVE Pow2(_)
Pow2(n) == IF n = 0 THEN 1 ELSE 2 * Pow2(n - 1)

RawValues == 0 .. (Pow2(RawBits) - 1)
Enumerators == 1 .. NumVariants

\* value.to_primitive(): the declared discriminant of the enumerator
to_primitive(t) == (16 * t) % Pow2(RawBits)

\* faulty variant: a Valid wrapper is left as it is
KeepVariant(e) == e

\* if let UnsafeEnum::Valid(ref value) = *self { *self = Invalid(..) }
Invalidate(e) ==
    IF e.tag = "Valid"
    THEN [tag |-> "Invalid", value |-> to_primitive(e.value)]
    ELSE e

InitEnum ==
    /\ uenum \in {[tag |-> "Valid", value |-> t] : t \in Enumerators}
                   \cup {[tag |-> "Invalid", value |-> r] : r \in RawValues}
    /\ enumOrigin = uenum.tag
    /\ enumCalls = 0 /\ unreachableTaken = FALSE
    /\ VecIdle /\ StrIdle

\* impl Mutatable for UnsafeEnum<T, I>; mutate_from_mutation_mode may leave
\* any raw value behind
MutateUnsafeEnum ==
    /\ ~fault
    /\ enumCalls < MaxEnumCalls
    /\ enumCalls' = enumCalls + 1
    /\ LET self == Invalidate(uenum)
       IN IF self.tag = "Invalid"
          THEN /\ \E value \in RawValues :
                    uenum' = [tag |-> "Invalid", value |-> value]
               /\ UNCHANGED <<unreachableTaken, fault>>
          ELSE /\ uenum' = self
               /\ unreachableTaken' = TRUE
               /\ fault' = TRUE
    /\ UNCHANGED <<vecVars, enumOrigin, strVars>>

NextEnum == MutateUnsafeEnum
SpecEnum == InitEnum /\ [][NextEnum]_vars

\* ------------------------------------------------------------ strings
AsciiChars == 0 .. MaxAscii
Utf8Chars == 0 .. MaxUtf8

Alphabet(kind) == IF kind = "ascii" THEN AsciiChars ELSE Utf8Chars

StringsOver(chars) ==
    UNION {[1 .. n -> chars] : n \in 0 .. MaxStrLen}

\* faulty variant: the count range includes the full length
NumMutationsInclusive(len) == gen_range(1, len + 1)

\* let num_mutations = mutator.gen_range(1, self.inner.len())
NumMutations(len) == gen_range(1, len)

InitStr ==
    /\ strKind \in {"ascii", "utf8"}
    /\ str \in StringsOver(Alphabet(strKind))
    /\ strPre = str /\ replaced = {} /\ strDone = FALSE
    /\ VecIdle /\ EnumIdle

\* the body shared by the two string impls: one call on any string
MutateString(kind) ==
    /\ ~fault
    /\ ~strDone
    /\ strDone' = TRUE
    /\ strPre' = str
    /\ \E num_mutations \in NumMutations(Len(str)) :
         IF num_mutations = Panic \/ num_mutations > Len(str)
         THEN /\ fault' = TRUE
              /\ str' = str
              /\ replaced' = {}
         ELSE \E S \in index_sample(Len(str), num_mutations) :
              \E chars \in [S -> Alphabet(kind)] :
                /\ str' = [idx \in 1 .. Len(str) |->
                             IF idx \in S THEN chars[idx] ELSE str[idx]]
                /\ replaced' = S
                /\ fault' = FALSE
    /\ UNCHANGED <<vecVars, enumVars, strKind>>

\* impl Mutatable for AsciiString
MutateAsciiString ==
    /\ strKind = "ascii"
    /\ MutateString("ascii")
\* impl Mutatable for Utf8String
MutateUtf8String ==
    /\ strKind = "utf8"
    /\ MutateString("utf8")

NextStr == MutateAsciiString \/ MutateUtf8String
SpecStr == InitStr /\ [][NextStr]_vars

\* ================================================================ claims
Done == pc = "done"
Grew == Done /\ call.resize_type = "Grow"
Shrank == Done /\ call.resize_type = "Shrink"
Budget == MaxSizeOf(call.constraints)
IsFresh(e) == e.id < 0
Inserted == SelectSeq(vec, IsFresh)

RECURSIVE LogSize(_, _)
LogSize(log, j) == IF j = 0 THEN 0 ELSE log[j].size + LogSize(log, j - 1)

\* C1: after grow_vec under a byte budget C the serialized size of the whole
\* sequence, old and new elements together, is <= C (stated here only for
\* sequences that fit C before the call).
BudgetRespect ==
    (Grew /\ Budget # NoBudget /\ serialized_size(pre) <= Budget)
        => serialized_size(vec) <= Budget

\* C2: on a non-empty sequence the number of elements shrink_vec asks to
\* remove is <= the length, the call completes without a fault and the
\* resulting length is the old length minus that number.
ShrinkWithinLength ==
    (Shrank /\ Len(pre) > 0)
        => /\ call.num_elements <= Len(pre)
           /\ ~fault
           /\ Len(vec) = Len(pre) - call.num_elements

\* what is left of pre once k elements are gone from the drawn end
Remaining(k, direction) ==
    IF k = Len(pre) THEN <<>>
    ELSE IF direction = "FromBeginning"
         THEN SubSeq(pre, k + 1, Len(pre))
         ELSE SubSeq(pre, 1, Len(pre) - k)

BudgetedGrowthCapped ==
    (Grew /\ Budget # NoBudget)
        => /\ Len(vec) = Len(pre) + Len(Inserted)
           /\ Len(Inserted) <= Min(call.candidate, Budget \div MinNonzeroSize)
           /\ serialized_size(Inserted) <= Budget
           /\ \A j \in DOMAIN genLog :
                genLog[j].size > genLog[j].constraint
                    => ~genLog[j].accepted /\ j = Len(genLog)
           /\ \A j \in DOMAIN genLog :
                ~genLog[j].accepted => Len(Inserted) = j - 1
           /\ (MinNonzeroSize = 4 /\ Budget = 10 /\ call.candidate = 5
                 => Len(Inserted) <= 2)

GrowthStoppedEarly ==
    /\ Grew /\ Budget # NoBudget
    /\ Len(genLog) = 2 /\ ~genLog[2].accepted
    /\ Len(Inserted) = 1 /\ call.num_elements = 2

\* C6: without a budget grow_vec adds exactly the candidate count (a draw in
\* 1..8 on an empty sequence whatever the policy, else the policy's count);
\* the original elements stay in order at the front (FromEnd) or at the back
\* (FromBeginning) and the new ones stand in generation order.
UnbudgetedGrowthExact ==
    (Grew /\ Budget = NoBudget)
        => LET n == Len(pre)
               c == IF n = 0 THEN call.draw
                    ELSE PolicyCount(call.resize_count, n, call.draw)
               off == IF call.direction = "FromBeginning" THEN 0 ELSE n
               keep == IF call.direction = "FromBeginning" THEN c ELSE 0
           IN /\ (n = 0 \/ call.resize_count = "FixedBytes"
                    => call.draw \in 1 .. 8)
              /\ Len(vec) = n + c
              /\ \A i \in 1 .. n : vec[keep + i] = pre[i]
              /\ \A j \in 1 .. c : vec[off + j].id = FreshId(j)
              /\ (n = 0 /\ call.draw = 3 => Len(vec) = 3)

GrewAtFrontOfOriginals ==
    /\ Grew /\ Budget = NoBudget
    /\ call.direction = "FromBeginning"
    /\ Len(pre) = 4 /\ Len(vec) = 7

\* C9: outside Havoc the length is unchanged and every element is mutated
\* exactly once, in index order, with the caller's constraints; a call runs
\* either one resize or the element pass, never both; the generic form never
\* lengthens the sequence.
ResizeGatedAndExclusive ==
    Done
        => /\ (mode # "Havoc"
                 => /\ Len(vec) = Len(pre)
                    /\ mutLog = [i \in 1 .. Len(pre) |->
                                   [idx |-> i, constraints |-> call.constraints]]
                    /\ \A i \in 1 .. Len(pre) :
                         vec[i] = [pre[i] EXCEPT !.muts = pre[i].muts + 1])
           /\ call.path \in {"resize", "elements"}
           /\ (call.path = "resize"
                 => /\ call.resize_type \in VecResizeType
                    /\ mutLog = <<>>
                    /\ \A i \in 1 .. Len(vec) : vec[i].muts = 0)
           /\ (call.path = "elements"
                 => /\ call.resize_type = "none"
                    /\ genLog = <<>>
                    /\ Len(vec) = Len(pre)
                    /\ Len(mutLog) = Len(pre))
           /\ (call.form = "generic" => Len(vec) <= Len(pre))

ElementPassOutsideHavoc ==
    /\ Done /\ mode # "Havoc" /\ call.form = "rich"
    /\ call.constraints.present /\ call.constraints.max_size = 0
    /\ Len(pre) = 3 /\ Len(mutLog) = 3

\* C10: the constraint handed to the generator for the j-th element is the
\* initial budget minus the actual sizes of the elements accepted before it,
\* the remaining budget never rises and never drops below zero, and a capped
\* count of zero leaves the sequence as it was with nothing generated.
BudgetBookkeeping ==
    (Grew /\ Budget # NoBudget)
        => /\ \A j \in DOMAIN genLog :
                /\ genLog[j].constraint = Budget - LogSize(genLog, j - 1)
                /\ genLog[j].constraint >= 0
                /\ (j > 1 => /\ genLog[j - 1].accepted
                             /\ genLog[j].constraint <= genLog[j - 1].constraint)
           /\ call.rem = Budget - serialized_size(Inserted)
           /\ call.rem >= 0
           /\ (Min(call.candidate, Budget \div MinNonzeroSize) = 0
                 => vec = pre /\ genLog = <<>>)

SecondElementGotLess ==
    /\ Grew /\ Budget # NoBudget
    /\ Len(genLog) = 2 /\ genLog[2].accepted
    /\ genLog[1].size = MinNonzeroSize + 1
    /\ genLog[2].constraint = Budget - (MinNonzeroSize + 1)

\* C3: after any mutate call the wrapper is Invalid, it stays Invalid over
\* further calls, and the unreachable branch is never taken.
InvalidIsOneWay ==
    /\ (enumCalls >= 1 => uenum.tag = "Invalid")
    /\ ~unreachableTaken
    /\ (enumOrigin = "Invalid" => uenum.tag = "Invalid")

ValidMutatedTwice ==
    /\ enumOrigin = "Valid" /\ enumCalls = 2 /\ uenum.tag = "Invalid"

\* C7: mutate on a string container of length 0 or 1 completes without a
\* fault.
DegenerateStringsTotal ==
    (strDone /\ Len(strPre) <= 1) => ~fault

\* C8: on a string of length L >= 2 mutate keeps the length, replaces k
\* distinct in-range positions with 1 <= k <= L-1, and leaves every other
\* position as it was.
StringLengthInvariant ==
    (strDone /\ Len(strPre) >= 2)
        => /\ ~fault
           /\ Len(str) = Len(strPre)
           /\ replaced \subseteq 1 .. Len(strPre)
           /\ Cardinality(replaced) >= 1
           /\ Cardinality(replaced) <= Len(strPre) - 1
           /\ \A i \in (1 .. Len(strPre)) \ replaced : str[i] = strPre[i]

TwoOfThreeReplaced ==
    /\ strDone /\ Len(strPre) = 3
    /\ Cardinality(replaced) = 2 /\ str # strPre
====
